---- MODULE Spec2Model ----
(***************************************************************************)
(* Model of the image-tool view class Ui (src/src/ui.js): the status       *)
(* modifiers and tune modifiers on the wrapper, the preloader background,  *)
(* the media elements appended by fillImage, and the wheel / pinch zoom    *)
(* handlers that rewrite the current media element's max-width.            *)
(*                                                                         *)
(* Encodings                                                               *)
(*  - a nullable JS value is <<>> (null / undefined / '') or <<v>>;        *)
(*  - a CSS percentage is held as a whole number of half percents, so      *)
(*    that parseInt (truncation) and parseFloat differ and Math.round has  *)
(*    something to round: Pct(15) is 15%, Pct(12) + 1 is 12.5%;            *)
(*  - a distance returned by getDistance is held as its square             *)
(*    (dx*dx + dy*dy), which is exact; ratios of distances are compared    *)
(*    through their squares, and where the exact product of onPinchMove    *)
(*    lies half-way between two percentages the doubles of the code        *)
(*    (Math.sqrt, the division, the product) are computed bit by bit;      *)
(*  - a string that the code inspects (a URL) is a sequence of             *)
(*    one-character strings;                                               *)
(*  - the wrapper's class list is held as the set of modifier names m of   *)
(*    its classes `image-tool--m` (the two base classes never change);     *)
(*  - the element nodes.imageEl refers to is held in full in imageEl;      *)
(*    children holds, for every element appended to the container, the     *)
(*    part its own load event depends on (tag, listener, whether it has    *)
(*    fired). The code keeps no reference to an element once fillImage has *)
(*    replaced nodes.imageEl, so its src and style are never read again;   *)
(*  - pinchTouches is a history variable: the code keeps the distance      *)
(*    between event.touches[0] and event.touches[1] and not which touches  *)
(*    they were; it is written where pinchDistance is and read by no       *)
(*    action.                                                              *)
(***************************************************************************)
EXTENDS Integers, Sequences, FiniteSets

VARIABLES
    modifiers,          \* nodes.wrapper.classList: the m of each image-tool--m
    preloaderBg,        \* nodes.imagePreloader.style.backgroundImage
    children,           \* the media elements appended to nodes.imageContainer
    imageEl,            \* nodes.imageEl: undefined, or the element it refers to
    pinchDistance,      \* this.pinchDistance (squared)
    initImageMaxWidth,  \* this.initImageMaxWidth (half percents)
    pinchTouches,       \* history: the identifiers of the two touches that
                        \* this.pinchDistance was measured between
    caption,            \* nodes.caption.innerHTML
    selectCalls,        \* the number of calls of this.onSelectFile so far
    outcome             \* what the last call returned / whether the last
                        \* event had its default action prevented

vars == <<modifiers, preloaderBg, children, imageEl,
          pinchDistance, initImageMaxWidth, pinchTouches,
          caption, selectCalls, outcome>>

viewVars == <<modifiers, preloaderBg>>
pinchVars == <<pinchDistance, initImageMaxWidth, pinchTouches>>
hostVars == <<caption, selectCalls>>

----------------------------------------------------------------------------
(* Bounds of the model *)

\* fillImage is called at most MaxFills times on one view
MaxFills == 2

\* the file button is clicked at most MaxClicks times
MaxClicks == 1

----------------------------------------------------------------------------
(* Nullable values and percentages *)

Null == <<>>
Some(v) == <<v>>

\* n percent, in half percents
Pct(n) == 2 * n

\* parseInt of a non-negative percentage string: the digits before '.' or '%'
ParseInt(v) == Pct(v \div 2)

\* parseFloat of a percentage string: the number before '%'
ParseFloat(v) == v

----------------------------------------------------------------------------
(* Program constants *)

\* Ui.status
StatusEMPTY == "empty"
StatusUPLOADING == "loading"
StatusFILLED == "filled"
UiStatus == <<StatusEMPTY, StatusUPLOADING, StatusFILLED>>
StatusModifiers == {UiStatus[i] : i \in DOMAIN UiStatus}

\* wheel zoom: step and clamps
WheelStep == 5
WheelMin == 15
WheelMax == 100

\* pinch zoom: clamps
PinchMin == 10
PinchMax == 100

\* default max-width where the style is unset, and fillImage's default
DefaultMaxWidth == 100

----------------------------------------------------------------------------
(* Inputs *)

\* saved data's file: absent, or an object given by its set of keys
Files == {Null, Some({}), Some({"url"}), Some({"url", "size"})}

\* preview sources handed to showPreloader
Srcs == {"blob:preview"}

\* URLs handed to fillImage
UrlMp4 == <<"a", ".", "m", "p", "4">>
UrlBareMp4 == <<".", "m", "p", "4">>
UrlNoDot == <<"a", "m", "p", "4">>
UrlQuery == <<"a", ".", "m", "p", "4", "?", "x">>
UrlPng == <<"a", ".", "p", "n", "g">>
Urls == {UrlMp4, UrlBareMp4, UrlNoDot, UrlQuery, UrlPng}

\* texts handed to fillCaption
Captions == {"", "<b>hi</b>"}

\* tune names handed to applyTune; the last one is also a status name
Tunes == {"withBorder", "stretched", StatusFILLED}

\* max-width arguments of fillImage: omitted, or a number of half percents
FillWidths == {Null, Some(Pct(5)), Some(Pct(12) + 1), Some(Pct(50)), Some(Pct(120))}

\* the argument of a direct toggleStatus call: a status or any other string
StatusArguments == {"empty", "loading", "filled", "other"}

\* deltaY of a wheel event
DeltaYs == {-1, 0, 1}

\* a touch point: identifier and page coordinates
Touch(id, p) == [identifier |-> id, pageX |-> p[1], pageY |-> p[2]]

\* page coordinates of touch points: distances 0, sqrt(2), 3 * sqrt(2) and
\* 4 * sqrt(2), no double of which is exact
Points == {<<0, 0>>, <<3, 3>>, <<4, 4>>}

\* a smaller set: distances 0 and 4 * sqrt(2)
FewPoints == {<<0, 0>>, <<4, 4>>}

\* the lists event.touches of n touch points at coordinates of points
ListsOf(points, n) ==
    {[i \in 1..n |-> Touch(i, f[i])] : f \in [1..n -> points]}

\* event.touches: no, one or two touches anywhere, or three touches (a third
\* touch adds to the length of the list and to nothing else the handlers read)
TouchLists ==
    ListsOf(Points, 0) \cup ListsOf(Points, 1) \cup ListsOf(Points, 2)
        \cup ListsOf(FewPoints, 3)
FewTouchLists ==
    ListsOf(FewPoints, 0) \cup ListsOf(FewPoints, 1) \cup ListsOf(FewPoints, 2)
        \cup ListsOf(FewPoints, 3)

\* event.touches of one or two touches at the coordinates of the smaller set
OneOrTwoTouches == ListsOf(FewPoints, 1) \cup ListsOf(FewPoints, 2)

\* identifiers of touch points
TouchIds == 1..3

\* the identifiers of ids in the order of event.touches (ascending)
InOrder(ids) ==
    CHOOSE seq \in [1..Cardinality(ids) -> ids] :
        \A i, j \in 1..Cardinality(ids) : i < j => seq[i] < seq[j]

\* event.touches where touches come and go: the touches identified by any
\* set of identifiers, each at any of the coordinates
IdTouchLists ==
    UNION {{[i \in 1..Cardinality(ids) |-> Touch(InOrder(ids)[i], f[InOrder(ids)[i]])] :
                f \in [ids -> Points]} : ids \in SUBSET TouchIds}

----------------------------------------------------------------------------
(* Helpers *)

\* classList.toggle(name): the force argument left out
ToggleFlip(classes, name, force) ==
    IF name \in classes THEN classes \ {name} ELSE classes \cup {name}

\* classList.toggle(name, force)
Toggle(classes, name, force) ==
    IF force THEN classes \cup {name} ELSE classes \ {name}

RECURSIVE ToggleUpTo(_, _, _)
ToggleUpTo(classes, status, n) ==
    IF n = 0 THEN classes
    ELSE Toggle(ToggleUpTo(classes, status, n - 1), UiStatus[n], status = UiStatus[n])

\* a toggleStatus that adds the modifier of status and removes none
ToggleStatusAddOnly(classes, status) == classes \cup {status}

\* toggleStatus(status): every status modifier is toggled on equality
ToggleStatus(classes, status) == ToggleUpTo(classes, status, Len(UiStatus))

\* /\.mp4/.test(url): the pattern without its anchor
ContainsMp4(url) ==
    \E i \in 1..Len(url) :
        /\ i + 3 <= Len(url)
        /\ SubSeq(url, i, i + 3) = <<".", "m", "p", "4">>

\* /\.mp4$/.test(url)
EndsWithMp4(url) ==
    /\ Len(url) >= 4
    /\ SubSeq(url, Len(url) - 3, Len(url)) = <<".", "m", "p", "4">>

\* the tag fillImage composes
TagOf(url) == IF EndsWithMp4(url) THEN "VIDEO" ELSE "IMG"

\* the event fillImage listens to
EventNameOf(tag) == IF tag = "VIDEO" THEN "loadeddata" ELSE "load"

\* the attributes fillImage hands to make
AttributesOf(url, maxWidth) ==
    [src |-> url,
     maxWidth |-> maxWidth,
     autoplay |-> TagOf(url) = "VIDEO",
     loop |-> TagOf(url) = "VIDEO",
     muted |-> TagOf(url) = "VIDEO",
     playsinline |-> TagOf(url) = "VIDEO"]

\* make(tag, classNames, attributes): an element with the attributes set
Make(tag, attributes) ==
    [tag |-> tag,
     src |-> attributes.src,
     maxWidth |-> Some(attributes.maxWidth),
     autoplay |-> attributes.autoplay,
     loop |-> attributes.loop,
     muted |-> attributes.muted,
     playsinline |-> attributes.playsinline]

\* the event a browser fires when an element of this tag has loaded
CompletionEvent(tag) == IF tag = "VIDEO" THEN "loadeddata" ELSE "load"

\* getDistance(touch1, touch2), squared
GetDistance(touch1, touch2) ==
    LET dx == touch1.pageX - touch2.pageX
        dy == touch1.pageY - touch2.pageY
    IN  dx * dx + dy * dy

\* style.maxWidth || 100, as read by both zoom paths
MaxWidthOr100(el) ==
    IF el.maxWidth = Null THEN Pct(DefaultMaxWidth) ELSE el.maxWidth[1]

\* a newMaxWidth that takes deltaY > 0 for the upward intent
WheelWidthSwapped(currentMaxWidth, deltaY) ==
    LET current == currentMaxWidth \div 2
    IN  IF deltaY > 0
        THEN (IF current + 5 < 100 THEN current + 5 ELSE 100)
        ELSE (IF current - 5 > 15 THEN current - 5 ELSE 15)

\* the wheel listener's newMaxWidth, in whole percents
WheelWidth(currentMaxWidth, deltaY) ==
    LET current == currentMaxWidth \div 2
    IN  IF deltaY < 0
        THEN (IF current + WheelStep < WheelMax THEN current + WheelStep ELSE WheelMax)
        ELSE (IF current - WheelStep > WheelMin THEN current - WheelStep ELSE WheelMin)

\* the largest whole w in lo..hi with w - 1/2 <= (init / 2) * sqrt(cur / base),
\* i.e. with (2w-1)^2 * base <= init^2 * cur, which lo satisfies
RECURSIVE RoundBetween(_, _, _, _, _)
RoundBetween(lo, hi, init, cur, base) ==
    IF lo = hi THEN lo
    ELSE LET mid == (lo + hi + 1) \div 2
         IN  IF (2 * mid - 1) * (2 * mid - 1) * base <= init * init * cur
             THEN RoundBetween(mid, hi, init, cur, base)
             ELSE RoundBetween(lo, mid - 1, init, cur, base)

\* Math.round(x) for x = (init / 2) * sqrt(cur / base) between the clamps:
\* the whole w with w - 1/2 <= x < w + 1/2
RoundScaled(init, cur, base) == RoundBetween(PinchMin, PinchMax, init, cur, base)

----------------------------------------------------------------------------
(* Double-precision arithmetic, where its rounding decides a result.       *)
(* A positive double is [mantissa |-> m, exponent |-> e], the number        *)
(* m * 2^e with 2^52 <= m <= 2^53; m is a natural number too wide for one    *)
(* integer and is held in Limbs digits of base LimbBase, lowest first.     *)

LimbBase == 32768
Limbs == 6

\* the natural number n < 2^31 in digits
Big(n) ==
    [i \in 1..Limbs |->
        IF i = 1 THEN n % LimbBase
        ELSE IF i = 2 THEN (n \div LimbBase) % LimbBase
        ELSE IF i = 3 THEN n \div (LimbBase * LimbBase)
        ELSE 0]

\* digits brought back into 0..LimbBase-1, carrying (or borrowing) upward;
\* what is carried into the highest digit stays there
RECURSIVE CarryFrom(_, _, _)
CarryFrom(x, i, c) ==
    LET v == x[i] + c
    IN  IF i = Limbs THEN [x EXCEPT ![i] = v]
        ELSE CarryFrom([x EXCEPT ![i] = v % LimbBase], i + 1, v \div LimbBase)

\* x * k, x + n and x - y (for x >= y) on digits, k and n below LimbBase
Times(x, k) == CarryFrom([i \in 1..Limbs |-> x[i] * k], 1, 0)
Plus(x, n) == CarryFrom([x EXCEPT ![1] = @ + n], 1, 0)
Minus(x, y) == CarryFrom([i \in 1..Limbs |-> x[i] - y[i]], 1, 0)

\* x >= y, compared from the highest digit down
RECURSIVE GeqFrom(_, _, _)
GeqFrom(x, y, i) ==
    IF i = 0 THEN TRUE
    ELSE IF x[i] /= y[i] THEN x[i] > y[i]
    ELSE GeqFrom(x, y, i - 1)

Geq(x, y) == GeqFrom(x, y, Limbs)

\* x * 2^k, fourteen bits at a time
RECURSIVE Shifted(_, _)
Shifted(x, k) == IF k <= 14 THEN Times(x, 2 ^ k) ELSE Shifted(Times(x, 2 ^ 14), k - 14)

\* x is a natural number of Limbs digits: the highest digit neither
\* overflowed nor borrowed
Fits(x) == x[Limbs] >= 0 /\ x[Limbs] < LimbBase

\* the number of base-4 digits of n
RECURSIVE Quads(_)
Quads(n) == IF n = 0 THEN 0 ELSE 1 + Quads(n \div 4)

\* the k-th base-4 digit of n from the top, of np digits; 0 past the last
Quad(n, np, k) == IF k <= np THEN (n \div 4 ^ (np - k)) % 4 ELSE 0

\* one step of the digit-by-digit square root: the next bit of the root
SqrtStep(n, np, k, s) ==
    LET rem == Plus(Times(s.rem, 4), Quad(n, np, k))
        trial == Plus(Times(s.root, 4), 1)
    IN  IF Geq(rem, trial)
        THEN [rem |-> Minus(rem, trial), root |-> Plus(Times(s.root, 2), 1)]
        ELSE [rem |-> rem, root |-> Times(s.root, 2)]

\* steps k..last of the square root
RECURSIVE SqrtSteps(_, _, _, _, _)
SqrtSteps(n, np, k, last, s) ==
    IF k > last \/ ~Fits(s.rem) \/ ~Fits(s.root) THEN s
    ELSE SqrtSteps(n, np, k + 1, last, SqrtStep(n, np, k, s))

\* Math.sqrt(n) for a natural n >= 1: the first 53 bits of the root, rounded
\* to nearest by the 54th (the root of a natural is never half-way)
MathSqrt(n) ==
    LET np == Quads(n)
        s == SqrtSteps(n, np, 1, 53, [rem |-> Big(0), root |-> Big(0)])
        next == SqrtStep(n, np, 54, s)
    IN  [mantissa |-> Plus(s.root, next.root[1] % 2), exponent |-> np - 53]

\* one step of the long division by d: the next bit of the quotient
DivStep(d, s) ==
    LET twice == Times(s.rem, 2)
    IN  IF Geq(twice, d)
        THEN [rem |-> Minus(twice, d), q |-> Plus(Times(s.q, 2), 1)]
        ELSE [rem |-> twice, q |-> Times(s.q, 2)]

\* k more steps of the long division by d
RECURSIVE DivSteps(_, _, _)
DivSteps(d, k, s) ==
    IF k = 0 \/ ~Fits(s.rem) \/ ~Fits(s.q) THEN s ELSE DivSteps(d, k - 1, DivStep(d, s))

\* a / b on doubles: 53 bits of the quotient, rounded to nearest, a tie to
\* the even mantissa
Quotient(a, b) ==
    LET lead == Geq(a.mantissa, b.mantissa)
        s == IF lead
             THEN DivSteps(b.mantissa, 52,
                           [rem |-> Minus(a.mantissa, b.mantissa), q |-> Big(1)])
             ELSE DivSteps(b.mantissa, 53, [rem |-> a.mantissa, q |-> Big(0)])
        twice == Times(s.rem, 2)
        half == Geq(twice, b.mantissa)
        rest == IF half THEN Minus(twice, b.mantissa) ELSE twice
        up == half /\ (rest /= Big(0) \/ s.q[1] % 2 = 1)
    IN  [mantissa |-> IF up THEN Plus(s.q, 1) ELSE s.q,
         exponent |-> a.exponent - b.exponent - (IF lead THEN 52 ELSE 53)]

\* Math.sqrt(cur) / Math.sqrt(base) for the distances between the touch
\* points of the specifications, computed once: the pairs of <<cur, base>>
\* and the quotient
Ratios ==
    LET squares == {GetDistance(Touch(1, p), Touch(2, q)) : p, q \in Points} \ {0}
    IN  {<<pair, Quotient(MathSqrt(pair[1]), MathSqrt(pair[2]))>> :
            pair \in squares \X squares}

\* the ratio of onPinchMove: getDistance(...) / this.pinchDistance
Ratio(cur, base) ==
    IF \E r \in Ratios : r[1] = <<cur, base>>
    THEN (CHOOSE r \in Ratios : r[1] = <<cur, base>>)[2]
    ELSE Quotient(MathSqrt(cur), MathSqrt(base))

\* the exponent of the power of two at or below w - 1/2, for w in 11..100
Binade(w) == IF w <= 16 THEN 3 ELSE IF w <= 32 THEN 4 ELSE IF w <= 64 THEN 5 ELSE 6

\* (init / 2) * ratio, as a double, is at least w - 1/2: the product m * 2^e
\* rounds to w - 1/2 or above when it is at least half a unit in the last
\* place below it (w - 1/2 has an even mantissa)
ProductReaches(init, ratio, w) ==
    LET b == Binade(w)
        g == ratio.exponent + 52 - b
        product == Times(ratio.mantissa, init)
        least == Minus(Shifted(Big(2 * w - 1), 52 - b), Big(1))
    IN  IF g >= 0 THEN Geq(Shifted(product, g), least)
        ELSE Geq(product, Shifted(least, 0 - g))

\* Math.round(Math.min(100, init * ratio)): the lower clamp left out
PinchWidthNoFloor(init, cur, base) ==
    IF init * init * cur >= (2 * 100) * (2 * 100) * base THEN 100
    ELSE CHOOSE w \in 0..100 :
            /\ w = 0 \/ (2 * w - 1) * (2 * w - 1) * base <= init * init * cur
            /\ init * init * cur < (2 * w + 1) * (2 * w + 1) * base

\* onPinchMove's Math.round(Math.max(10, Math.min(100, init * ratio))),
\* in whole percents, with ratio = Math.sqrt(cur) / Math.sqrt(base). The
\* doubles are off the exact product by far less than its distance from the
\* nearest k + 1/2, except where the exact product is k + 1/2 itself: there
\* the rounding of the square roots, the quotient and the product decides
\* between k and k + 1.
PinchWidth(init, cur, base) ==
    IF init * init * cur <= (2 * PinchMin) * (2 * PinchMin) * base THEN PinchMin
    ELSE IF init * init * cur >= (2 * PinchMax) * (2 * PinchMax) * base THEN PinchMax
    ELSE LET w == RoundScaled(init, cur, base)
         IN  IF (2 * w - 1) * (2 * w - 1) * base = init * init * cur
                  /\ ~ProductReaches(init, Ratio(cur, base), w)
             THEN w - 1
             ELSE w

\* `url(${src})`
CssUrl(src) == <<"url(", src, ")">>

\* a JS number used as a condition: null and 0 are falsy
Truthy(v) == v /= Null /\ v[1] /= 0

\* el.style.maxWidth = whole + '%'
SetMaxWidth(el, whole) == [el EXCEPT !.maxWidth = Some(Pct(whole))]

----------------------------------------------------------------------------
(* Initial state: after the constructor *)

Init ==
    /\ modifiers = {}
    /\ preloaderBg = Null
    /\ children = <<>>
    /\ imageEl = Null
    /\ pinchDistance = Some(0)
    /\ initImageMaxWidth = Null
    /\ pinchTouches = Null
    /\ caption = ""
    /\ selectCalls = 0
    /\ outcome = [returned |-> "undefined", defaultPrevented |-> FALSE]

Returned(v) == [returned |-> v, defaultPrevented |-> FALSE]
Dispatched(prevented) == [returned |-> "undefined", defaultPrevented |-> prevented]

----------------------------------------------------------------------------
(* Operations of the host *)

\* a render that tests only !toolData.file
RenderFileOnly(file) ==
    /\ modifiers' = IF file = Null
                    THEN ToggleStatus(modifiers, StatusEMPTY)
                    ELSE ToggleStatus(modifiers, StatusUPLOADING)
    /\ outcome' = Returned("wrapper")
    /\ UNCHANGED <<hostVars, preloaderBg, children, imageEl, pinchVars>>

Render(file) ==
    /\ modifiers' = IF file = Null \/ Cardinality(file[1]) = 0
                    THEN ToggleStatus(modifiers, StatusEMPTY)
                    ELSE ToggleStatus(modifiers, StatusUPLOADING)
    /\ outcome' = Returned("wrapper")
    /\ UNCHANGED <<hostVars, preloaderBg, children, imageEl, pinchVars>>

ShowPreloader(src) ==
    /\ preloaderBg' = Some(CssUrl(src))
    /\ modifiers' = ToggleStatus(modifiers, StatusUPLOADING)
    /\ outcome' = Returned("undefined")
    /\ UNCHANGED <<hostVars, children, imageEl, pinchVars>>

\* a hidePreloader that clears the background and keeps the status
HidePreloaderKeepsStatus ==
    /\ preloaderBg' = Null
    /\ outcome' = Returned("undefined")
    /\ UNCHANGED <<hostVars, modifiers, children, imageEl, pinchVars>>

HidePreloader ==
    /\ preloaderBg' = Null
    /\ modifiers' = ToggleStatus(modifiers, StatusEMPTY)
    /\ outcome' = Returned("undefined")
    /\ UNCHANGED <<hostVars, children, imageEl, pinchVars>>

\* a fillImage that marks the view FILLED at once, without waiting for the
\* element to load
FillImageFilledAtOnce(url, maxWidth) ==
    /\ Len(children) < MaxFills
    /\ LET width == IF maxWidth = Null THEN Pct(DefaultMaxWidth) ELSE maxWidth[1]
           tag == TagOf(url)
       IN  /\ imageEl' = Some(Make(tag, AttributesOf(url, width)))
           /\ children' = Append(children,
                  [tag |-> tag, listener |-> EventNameOf(tag), fired |-> FALSE])
    /\ modifiers' = ToggleStatus(modifiers, StatusFILLED)
    /\ outcome' = Returned("undefined")
    /\ UNCHANGED <<hostVars, preloaderBg, pinchVars>>

FillImage(url, maxWidth) ==
    /\ Len(children) < MaxFills
    /\ LET width == IF maxWidth = Null THEN Pct(DefaultMaxWidth) ELSE maxWidth[1]
           tag == TagOf(url)
       IN  /\ imageEl' = Some(Make(tag, AttributesOf(url, width)))
           /\ children' = Append(children,
                  [tag |-> tag, listener |-> EventNameOf(tag), fired |-> FALSE])
    /\ outcome' = Returned("undefined")
    /\ UNCHANGED <<hostVars, viewVars, pinchVars>>

\* an applyTune that toggles without the force argument
ApplyTuneNoForce(tuneName, status) ==
    /\ modifiers' = Toggle(modifiers, tuneName, tuneName \notin modifiers)
    /\ outcome' = Returned("undefined")
    /\ UNCHANGED <<hostVars, preloaderBg, children, imageEl, pinchVars>>

ApplyTune(tuneName, status) ==
    /\ modifiers' = Toggle(modifiers, tuneName, status)
    /\ outcome' = Returned("undefined")
    /\ UNCHANGED <<hostVars, preloaderBg, children, imageEl, pinchVars>>

FillCaption(text) ==
    /\ caption' = text
    /\ outcome' = Returned("undefined")
    /\ UNCHANGED <<viewVars, children, imageEl, pinchVars, selectCalls>>

\* toggleStatus(status) called from outside the view, with any string
ToggleStatusCall(status) ==
    /\ modifiers' = ToggleStatus(modifiers, status)
    /\ outcome' = Returned("undefined")
    /\ UNCHANGED <<hostVars, preloaderBg, children, imageEl, pinchVars>>

----------------------------------------------------------------------------
(* Events *)

\* a click on the file button: the listener calls this.onSelectFile()
ClickFileButton ==
    /\ selectCalls < MaxClicks
    /\ selectCalls' = selectCalls + 1
    /\ outcome' = Dispatched(FALSE)
    /\ UNCHANGED <<viewVars, children, imageEl, pinchVars, caption>>

\* element i has loaded: the browser fires its completion event, once
Loaded(i) ==
    /\ i \in DOMAIN children
    /\ ~children[i].fired
    /\ children' = [children EXCEPT ![i].fired = TRUE]
    /\ IF children[i].listener = CompletionEvent(children[i].tag)
       THEN /\ modifiers' = ToggleStatus(modifiers, StatusFILLED)
            /\ preloaderBg' = Null
       ELSE UNCHANGED viewVars
    /\ outcome' = Dispatched(FALSE)
    /\ UNCHANGED <<hostVars, imageEl, pinchVars>>

\* a wheel listener that does not test event.shiftKey
WheelNoShift(shiftKey, deltaY) ==
    /\ IF imageEl /= Null
       THEN imageEl' = Some(SetMaxWidth(imageEl[1],
                WheelWidth(ParseInt(MaxWidthOr100(imageEl[1])), deltaY)))
       ELSE UNCHANGED imageEl
    /\ outcome' = Dispatched(TRUE)
    /\ UNCHANGED <<hostVars, viewVars, children, pinchVars>>

\* a wheel listener that reports the new width through the host's callback
WheelNotifies(shiftKey, deltaY) ==
    /\ IF shiftKey /\ imageEl /= Null
       THEN /\ imageEl' = Some(SetMaxWidth(imageEl[1],
                    WheelWidth(ParseInt(MaxWidthOr100(imageEl[1])), deltaY)))
            /\ selectCalls' = selectCalls + 1
       ELSE UNCHANGED <<imageEl, selectCalls>>
    /\ outcome' = Dispatched(shiftKey)
    /\ UNCHANGED <<caption, viewVars, children, pinchVars>>

Wheel(shiftKey, deltaY) ==
    /\ IF shiftKey /\ imageEl /= Null
       THEN imageEl' = Some(SetMaxWidth(imageEl[1],
                WheelWidth(ParseInt(MaxWidthOr100(imageEl[1])), deltaY)))
       ELSE UNCHANGED imageEl
    /\ outcome' = Dispatched(shiftKey)
    /\ UNCHANGED <<hostVars, viewVars, children, pinchVars>>

\* an onPinchStart that records the distance and not the start percentage
OnPinchStartNoWidth(touches) ==
    /\ Len(touches) >= 1
    /\ IF imageEl /= Null /\ Len(touches) = 2
       THEN /\ pinchDistance' = Some(GetDistance(touches[1], touches[2]))
            /\ pinchTouches' = Some({touches[1].identifier, touches[2].identifier})
            /\ UNCHANGED initImageMaxWidth
            /\ outcome' = Dispatched(TRUE)
       ELSE /\ UNCHANGED pinchVars
            /\ outcome' = Dispatched(FALSE)
    /\ UNCHANGED <<hostVars, viewVars, children, imageEl>>

\* an onPinchStart that tests for at least two touches
OnPinchStartAnyTouches(touches) ==
    /\ Len(touches) >= 1
    /\ IF imageEl /= Null /\ Len(touches) >= 2
       THEN /\ pinchDistance' = Some(GetDistance(touches[1], touches[2]))
            /\ initImageMaxWidth' = Some(ParseFloat(MaxWidthOr100(imageEl[1])))
            /\ pinchTouches' = Some({touches[1].identifier, touches[2].identifier})
            /\ outcome' = Dispatched(TRUE)
       ELSE /\ UNCHANGED pinchVars
            /\ outcome' = Dispatched(FALSE)
    /\ UNCHANGED <<hostVars, viewVars, children, imageEl>>

OnPinchStart(touches) ==
    /\ Len(touches) >= 1
    /\ IF imageEl /= Null /\ Len(touches) = 2
       THEN /\ pinchDistance' = Some(GetDistance(touches[1], touches[2]))
            /\ initImageMaxWidth' = Some(ParseFloat(MaxWidthOr100(imageEl[1])))
            /\ pinchTouches' = Some({touches[1].identifier, touches[2].identifier})
            /\ outcome' = Dispatched(TRUE)
       ELSE /\ UNCHANGED pinchVars
            /\ outcome' = Dispatched(FALSE)
    /\ UNCHANGED <<hostVars, viewVars, children, imageEl>>

\* an onPinchMove that scales the current width, not the one at pinch start
OnPinchMoveFromCurrent(touches) ==
    /\ Len(touches) >= 1
    /\ IF imageEl /= Null /\ Len(touches) = 2 /\ Truthy(pinchDistance)
       THEN /\ imageEl' = Some(SetMaxWidth(imageEl[1],
                    PinchWidth(ParseFloat(MaxWidthOr100(imageEl[1])),
                               GetDistance(touches[1], touches[2]),
                               pinchDistance[1])))
            /\ outcome' = Dispatched(TRUE)
       ELSE /\ UNCHANGED imageEl
            /\ outcome' = Dispatched(FALSE)
    /\ UNCHANGED <<hostVars, viewVars, children, pinchVars>>

OnPinchMove(touches) ==
    /\ Len(touches) >= 1
    /\ IF imageEl /= Null /\ Len(touches) = 2 /\ Truthy(pinchDistance)
       THEN /\ imageEl' = Some(SetMaxWidth(imageEl[1],
                    PinchWidth(initImageMaxWidth[1],
                               GetDistance(touches[1], touches[2]),
                               pinchDistance[1])))
            /\ outcome' = Dispatched(TRUE)
       ELSE /\ UNCHANGED imageEl
            /\ outcome' = Dispatched(FALSE)
    /\ UNCHANGED <<hostVars, viewVars, children, pinchVars>>

\* an onPinchEnd that resets the distance and keeps the start percentage
OnPinchEndKeepsWidth(touches) ==
    /\ IF Len(touches) < 2
       THEN /\ pinchDistance' = Null
            /\ pinchTouches' = Null
            /\ UNCHANGED initImageMaxWidth
       ELSE UNCHANGED pinchVars
    /\ outcome' = Dispatched(FALSE)
    /\ UNCHANGED <<hostVars, viewVars, children, imageEl>>

OnPinchEnd(touches) ==
    /\ IF Len(touches) < 2
       THEN /\ pinchDistance' = Null
            /\ initImageMaxWidth' = Null
            /\ pinchTouches' = Null
       ELSE UNCHANGED pinchVars
    /\ outcome' = Dispatched(FALSE)
    /\ UNCHANGED <<hostVars, viewVars, children, imageEl>>

----------------------------------------------------------------------------
(* Specifications *)

\* The status, the media elements and the zoom together: the methods of Ui
\* that bear on them, toggleStatus called directly included, and every event
\* of the image container, over one URL, one tune, the default width and the
\* smaller set of touch points. (fillCaption and the click on the file
\* button, which touch none of these, are in NextFrame.)
Next ==
    \/ \E file \in Files : Render(file)
    \/ \E src \in Srcs : ShowPreloader(src)
    \/ HidePreloader
    \/ FillImage(UrlPng, Null)
    \/ \E status \in StatusArguments : ToggleStatusCall(status)
    \/ \E status \in BOOLEAN : ApplyTune("withBorder", status)
    \/ \E i \in 1..MaxFills : Loaded(i)
    \/ \E shiftKey \in BOOLEAN, deltaY \in DeltaYs : Wheel(shiftKey, deltaY)
    \/ \E touches \in FewTouchLists : OnPinchStart(touches)
    \/ \E touches \in FewTouchLists : OnPinchMove(touches)
    \/ \E touches \in FewTouchLists : OnPinchEnd(touches)

Spec == Init /\ [][Next]_vars

\* The host's side of the view: the operations by which the host drives the
\* status and the media element (it leaves toggleStatus to them), and the
\* load events, over every file, URL, width and tune name.
NextHost ==
    \/ \E file \in Files : Render(file)
    \/ \E src \in Srcs : ShowPreloader(src)
    \/ HidePreloader
    \/ \E url \in Urls, maxWidth \in FillWidths : FillImage(url, maxWidth)
    \/ \E tuneName \in Tunes, status \in BOOLEAN : ApplyTune(tuneName, status)
    \/ \E i \in 1..MaxFills : Loaded(i)

SpecHost == Init /\ [][NextHost]_vars

\* The status under every caller: the host's operations and toggleStatus
\* called directly, with each status and with a string that is none.
NextStatus ==
    \/ \E file \in Files : Render(file)
    \/ \E src \in Srcs : ShowPreloader(src)
    \/ HidePreloader
    \/ \E url \in Urls, maxWidth \in FillWidths : FillImage(url, maxWidth)
    \/ \E status \in StatusArguments : ToggleStatusCall(status)
    \/ \E tuneName \in Tunes, status \in BOOLEAN : ApplyTune(tuneName, status)
    \/ \E i \in 1..MaxFills : Loaded(i)

SpecStatus == Init /\ [][NextStatus]_vars

\* The zoom gestures: fillImage over every width, and the wheel and touch
\* events over every touch list.
NextZoom ==
    \/ \E maxWidth \in FillWidths : FillImage(UrlPng, maxWidth)
    \/ \E shiftKey \in BOOLEAN, deltaY \in DeltaYs : Wheel(shiftKey, deltaY)
    \/ \E touches \in TouchLists : OnPinchStart(touches)
    \/ \E touches \in TouchLists : OnPinchMove(touches)
    \/ \E touches \in TouchLists : OnPinchEnd(touches)

SpecZoom == Init /\ [][NextZoom]_vars

\* The zoom events against everything else the view holds: the status, a
\* tune, the preloader, the caption and the file button.
NextFrame ==
    \/ \E src \in Srcs : ShowPreloader(src)
    \/ FillImage(UrlPng, Null)
    \/ \E status \in BOOLEAN : ApplyTune("withBorder", status)
    \/ \E text \in Captions : FillCaption(text)
    \/ \E i \in 1..MaxFills : Loaded(i)
    \/ ClickFileButton
    \/ \E shiftKey \in BOOLEAN, deltaY \in DeltaYs : Wheel(shiftKey, deltaY)
    \/ \E touches \in OneOrTwoTouches : OnPinchStart(touches)
    \/ \E touches \in OneOrTwoTouches : OnPinchMove(touches)
    \/ \E touches \in OneOrTwoTouches : OnPinchEnd(touches)

SpecFrame == Init /\ [][NextFrame]_vars

\* The touch events with touches that come and go: event.touches lists any
\* of three identified touches.
NextTouch ==
    \/ \E maxWidth \in FillWidths : FillImage(UrlPng, maxWidth)
    \/ \E touches \in IdTouchLists : OnPinchStart(touches)
    \/ \E touches \in IdTouchLists : OnPinchMove(touches)
    \/ \E touches \in IdTouchLists : OnPinchEnd(touches)

SpecTouch == Init /\ [][NextTouch]_vars

----------------------------------------------------------------------------
(* Properties *)

\* step A leaves P true (P is looked at first: it is the cheaper one)
Ensures(A, P) == P \/ ~A

\* the status modifiers present on the wrapper
StatusOn(classes) == classes \cap StatusModifiers

\* the max-width of the element nodes.imageEl refers to, in half percents
WidthOf(el) == el[1].maxWidth[1]

\* the load handler of element i ran: its completion event fired and the
\* element listens to it
LoadHandlerRan(i) ==
    /\ i \in DOMAIN children
    /\ children[i].listener = CompletionEvent(children[i].tag)
    /\ Loaded(i)

\* one of the four paths into toggleStatus was taken
StatusChange ==
    \/ \E file \in Files : Render(file)
    \/ \E src \in Srcs : ShowPreloader(src)
    \/ HidePreloader
    \/ \E i \in 1..MaxFills : LoadHandlerRan(i)

\* C1: after every status change made by render, showPreloader,
\* hidePreloader or a media element's load handler, from any state (tunes
\* named like a status included), exactly one of the three status modifiers
\* is on the wrapper.
C1_ExactlyOneStatusAfterChange ==
    [][Ensures(StatusChange, Cardinality(StatusOn(modifiers')) = 1)]_vars

\* C1 witness: a load handler has made the view FILLED with a tune on.
C1_Witness ==
    /\ StatusOn(modifiers) = {StatusFILLED}
    /\ "withBorder" \in modifiers
    /\ \E i \in DOMAIN children : children[i].fired
    /\ outcome = Dispatched(FALSE)

\* the files of the input set that are absent or have no keys
NoFile == {Null, Some({})}

\* C2: render(savedData) leaves EMPTY as the only status when savedData.file
\* is absent or has no keys and UPLOADING when it has a key, whatever the
\* status was, and returns the wrapper.
C2_RenderStatus ==
    [][\A file \in Files :
        Render(file) =>
            /\ file \in NoFile => StatusOn(modifiers') = {StatusEMPTY}
            /\ file \notin NoFile => StatusOn(modifiers') = {StatusUPLOADING}
            /\ outcome'.returned = "wrapper"]_vars

\* C2 witness: render has returned the wrapper and left the view UPLOADING
\* although an element had loaded before.
C2_Witness ==
    /\ outcome.returned = "wrapper"
    /\ StatusOn(modifiers) = {StatusUPLOADING}
    /\ \E i \in DOMAIN children : children[i].fired

\* the URLs of the input set that end in the literal '.mp4'
VideoUrls == {UrlMp4, UrlBareMp4}

\* C3: fillImage(url, maxWidth) makes nodes.imageEl a video element with
\* autoplay, loop, muted and playsinline exactly when url ends in '.mp4' and
\* an image element without them otherwise; when the completion event of an
\* appended element fires (loadeddata for a video, load for an image), FILLED
\* is the only status and the preloader background is cleared, whatever the
\* status was.
C3_FillImageElementAndCompletion ==
    [][/\ \A url \in Urls, maxWidth \in FillWidths :
            FillImage(url, maxWidth) =>
                /\ imageEl' /= Null
                /\ imageEl'[1].src = url
                /\ imageEl'[1].tag = (IF url \in VideoUrls THEN "VIDEO" ELSE "IMG")
                /\ imageEl'[1].autoplay = (url \in VideoUrls)
                /\ imageEl'[1].loop = (url \in VideoUrls)
                /\ imageEl'[1].muted = (url \in VideoUrls)
                /\ imageEl'[1].playsinline = (url \in VideoUrls)
                /\ children'[Len(children')].tag = imageEl'[1].tag
       /\ \A i \in 1..MaxFills :
            Loaded(i) =>
                /\ StatusOn(modifiers') = {StatusFILLED}
                /\ preloaderBg' = Null]_vars

\* C3 witness: a video element made by fillImage has fired loadeddata and the
\* view is FILLED with no preloader background.
C3_Witness ==
    /\ imageEl /= Null
    /\ imageEl[1].tag = "VIDEO"
    /\ children[Len(children)].fired
    /\ StatusOn(modifiers) = {StatusFILLED}
    /\ preloaderBg = Null
    /\ outcome = Dispatched(FALSE)

\* a wheel event with the modifier key held was handled on a media element
ZoomWheel(deltaY) ==
    /\ imageEl /= Null
    /\ outcome'.defaultPrevented
    /\ Wheel(TRUE, deltaY)

\* C4 as stated: after any wheel event with the modifier key held on a media
\* element the max-width is within [15, 100], whatever it was before.
C4_Original ==
    [][\A deltaY \in DeltaYs :
        ZoomWheel(deltaY) =>
            /\ WidthOf(imageEl') >= Pct(15)
            /\ WidthOf(imageEl') <= Pct(100)]_vars

\* a touchmove was handled and wrote a max-width
PinchWrite(touches) ==
    /\ outcome'.defaultPrevented
    /\ imageEl /= Null
    /\ UNCHANGED pinchVars
    /\ OnPinchMove(touches)

\* v half percents are a whole percentage within [10, 100]
WholeInPinchRange(v) == v % 2 = 0 /\ v >= Pct(10) /\ v <= Pct(100)

\* C5: every max-width written by a pinch touchmove is a whole percentage
\* within [10, 100], for every start percentage and ratio of distances.
C5_PinchWidthInRange ==
    [][Ensures(\E touches \in TouchLists : PinchWrite(touches),
               /\ imageEl' /= Null
               /\ imageEl'[1].maxWidth /= Null
               /\ WholeInPinchRange(WidthOf(imageEl')))]_vars

\* C5 witness: in a pinch that started at 12.5% with the touches sqrt(2)
\* apart, a touchmove with the touches 3 * sqrt(2) apart has written 37%:
\* the exact product is 37.5, the product of the doubles falls just below
\* it. No wheel step leads to 37%.
C5_Witness ==
    /\ imageEl /= Null
    /\ outcome = Dispatched(TRUE)
    /\ pinchDistance = Some(2)
    /\ initImageMaxWidth = Some(Pct(12) + 1)
    /\ WidthOf(imageEl) = Pct(37)

\* C6 as stated: for every tune name, applyTune(name, false) (after
\* applyTune(name, true) or from any other state) leaves the wrapper without
\* the modifier of name, and no applyTune call changes which status modifier
\* is on the wrapper or the presence of another tune's modifier.
C6_Original ==
    [][\A tuneName \in Tunes, status \in BOOLEAN :
        ApplyTune(tuneName, status) =>
            /\ (tuneName \in modifiers') = status
            /\ StatusOn(modifiers') = StatusOn(modifiers)
            /\ \A other \in Tunes \ {tuneName} :
                  (other \in modifiers') = (other \in modifiers)]_vars

\* C6 amended: for every tune name, applyTune(name, enabled) leaves the
\* modifier of name present exactly when enabled is true (so true followed
\* by false leaves the wrapper without it) and changes the presence of no
\* other modifier; for a tune name that is not itself a status name it
\* does not change which status modifier is on the wrapper.
C6_ApplyTuneIndependent ==
    [][\A tuneName \in Tunes, status \in BOOLEAN :
        ApplyTune(tuneName, status) =>
            /\ (tuneName \in modifiers') = status
            /\ modifiers' \ {tuneName} = modifiers \ {tuneName}
            /\ tuneName \notin StatusModifiers =>
                  StatusOn(modifiers') = StatusOn(modifiers)]_vars

\* C6 witness: one tune is off and another on while the view is UPLOADING,
\* the last call having been one that returns nothing.
C6_Witness ==
    /\ "withBorder" \notin modifiers
    /\ "stretched" \in modifiers
    /\ StatusOn(modifiers) = {StatusUPLOADING}
    /\ outcome = Returned("undefined")
    /\ preloaderBg = Null

\* the touch lists of fewer than two touches
ShortLists == {touches \in TouchLists : Len(touches) < 2}

\* a touchend was handled that left fewer than two touches
PinchEnded ==
    /\ ~outcome'.defaultPrevented
    /\ \E touches \in ShortLists : OnPinchEnd(touches)

\* a touchmove was handled while the baseline distance was cleared
MoveAfterEnd ==
    /\ pinchDistance = Null
    /\ \E touches \in TouchLists : OnPinchMove(touches)

\* the percentage whole is (init / 2) * sqrt(cur / base), clamped to
\* [10, 100] and rounded to a nearest whole percent (either one, half-way
\* between two)
IsScaled(whole, init, cur, base) ==
    /\ whole \in 10..100
    /\ whole = 10 \/ (2 * whole - 1) * (2 * whole - 1) * base <= init * init * cur
    /\ whole = 100 \/ init * init * cur <= (2 * whole + 1) * (2 * whole + 1) * base

\* C7: a touchend that leaves fewer than two touches clears the baseline
\* distance and the start percentage; while they are cleared a touchmove
\* leaves the max-width alone; they are set again only by a touchstart with
\* exactly two touches on a media element, which records the width current
\* at that moment and the distance of its two touches; and a touchmove that
\* writes scales the percentage recorded at the latest start by the ratio of
\* its distance to the baseline recorded with it.
C7_PinchEndResets ==
    [][/\ Ensures(PinchEnded, pinchDistance' = Null /\ initImageMaxWidth' = Null)
       /\ Ensures(MoveAfterEnd, imageEl' = imageEl)
       /\ (pinchDistance = Null /\ pinchDistance' /= Null) =>
            \E touches \in TouchLists :
                /\ Len(touches) = 2
                /\ OnPinchStart(touches)
                /\ imageEl /= Null
                /\ initImageMaxWidth' = Some(WidthOf(imageEl))
                /\ pinchDistance' = Some(GetDistance(touches[1], touches[2]))
       /\ \A touches \in TouchLists :
            PinchWrite(touches) =>
                IsScaled(WidthOf(imageEl') \div 2, initImageMaxWidth[1],
                         GetDistance(touches[1], touches[2]), pinchDistance[1])]_vars

\* C7 witness: a pinch has scaled 50% to 37% (37.5 exactly, just below it
\* in doubles) and a touchend has then left fewer than two touches, clearing
\* both fields.
C7_Witness ==
    /\ imageEl /= Null
    /\ WidthOf(imageEl) = Pct(37)
    /\ pinchDistance = Null
    /\ initImageMaxWidth = Null

\* C8 as stated: with the modifier key held on a media element the max-width
\* becomes min(100, current + 5) for deltaY < 0 and max(15, current - 5)
\* otherwise; an upward event never lowers it, a downward one never raises it.
C8_Original ==
    [][\A deltaY \in DeltaYs :
        ZoomWheel(deltaY) =>
            LET current == WidthOf(imageEl)
                new == WidthOf(imageEl')
            IN  /\ deltaY < 0 =>
                      /\ new = (IF current + Pct(5) < Pct(100)
                                THEN current + Pct(5) ELSE Pct(100))
                      /\ new >= current
                /\ deltaY >= 0 =>
                      /\ new = (IF current - Pct(5) > Pct(15)
                                THEN current - Pct(5) ELSE Pct(15))
                      /\ new <= current]_vars

\* C8 amended: with c the current max-width cut to a whole percent, the
\* max-width becomes min(100, c + 5) for deltaY < 0 and max(15, c - 5)
\* otherwise; an upward event never lowers a width of at most 100 and a
\* downward event never raises a width of at least 15.
C8_WheelSteps ==
    [][\A deltaY \in DeltaYs :
        ZoomWheel(deltaY) =>
            LET current == WidthOf(imageEl)
                c == current \div 2
                new == WidthOf(imageEl')
            IN  /\ deltaY < 0 =>
                      /\ new = Pct(IF c + 5 < 100 THEN c + 5 ELSE 100)
                      /\ current <= Pct(100) => new >= current
                /\ deltaY >= 0 =>
                      /\ new = Pct(IF c - 5 > 15 THEN c - 5 ELSE 15)
                      /\ current >= Pct(15) => new <= current]_vars

\* C8 witness: wheel events alone have brought an element filled at 12.5%
\* to 22% (12 + 5 + 5), no pinch having started.
C8_Witness ==
    /\ imageEl /= Null
    /\ WidthOf(imageEl) = Pct(22)
    /\ pinchDistance = Some(0)
    /\ outcome = Dispatched(TRUE)

\* a touchmove wrote a max-width at the distance recorded at pinch start
PinchWriteAtBaseline(touches) ==
    /\ outcome'.defaultPrevented
    /\ Len(touches) = 2
    /\ Truthy(pinchDistance)
    /\ GetDistance(touches[1], touches[2]) = pinchDistance[1]
    /\ OnPinchMove(touches)

\* h half percents rounded to the nearest whole percent
Nearest(h) == (h + 1) \div 2

\* C9 as stated: a touchmove at the baseline distance writes back the
\* pinch-start percentage rounded to the nearest whole percent, whatever
\* the max-width is by then.
C9_Original ==
    [][\A touches \in TouchLists :
        PinchWriteAtBaseline(touches) =>
            WidthOf(imageEl') = Pct(Nearest(initImageMaxWidth[1]))]_vars

\* C9 amended: a touchmove at the baseline distance writes back the
\* pinch-start percentage clamped to [10, 100] and rounded to the nearest
\* whole percent, whatever the max-width is by then.
C9_BaselineWritesStart ==
    [][\A touches \in TouchLists :
        PinchWriteAtBaseline(touches) =>
            LET start == Nearest(initImageMaxWidth[1])
            IN  WidthOf(imageEl') =
                    Pct(IF start < 10 THEN 10 ELSE IF start > 100 THEN 100 ELSE start)]_vars

\* C9 witness: in a pinch that started at 12.5% the max-width is 13%.
C9_Witness ==
    /\ imageEl /= Null
    /\ initImageMaxWidth = Some(Pct(12) + 1)
    /\ Truthy(pinchDistance)
    /\ WidthOf(imageEl) = Pct(13)
    /\ outcome = Dispatched(TRUE)

\* C10: a wheel event without the modifier key changes neither the
\* max-width, nor the status and the other modifiers, nor the preloader,
\* nor the pinch state, and its default action is not prevented.
C10_WheelWithoutModifier ==
    [][Ensures(\E deltaY \in DeltaYs : Wheel(FALSE, deltaY),
               /\ UNCHANGED <<modifiers, preloaderBg, children, imageEl,
                              pinchDistance, initImageMaxWidth>>
               /\ ~outcome'.defaultPrevented)]_vars

\* C10 witness: nothing is prevented on an UPLOADING view with a preloader
\* background and a tune, whose element has not loaded and was zoomed to 90%
\* by wheel events in the middle of a pinch that started at 100%.
C10_Witness ==
    /\ imageEl /= Null
    /\ WidthOf(imageEl) = Pct(90)
    /\ modifiers = {StatusUPLOADING, "withBorder"}
    /\ preloaderBg /= Null
    /\ \A i \in DOMAIN children : ~children[i].fired
    /\ Truthy(pinchDistance)
    /\ initImageMaxWidth = Some(Pct(100))
    /\ outcome = Dispatched(FALSE)

\* C11 as stated: at any time, after any sequence of fillImage calls, the
\* image container holds at most one media element.
C11_Original == Len(children) <= 1

\* the host called applyTune with a tune name that is a status name
StatusNamedTune ==
    \E tuneName \in Tunes \cap StatusModifiers, status \in BOOLEAN :
        ApplyTune(tuneName, status)

\* FILLED was not on the wrapper and now is
BecomesFilled == StatusFILLED \notin modifiers /\ StatusFILLED \in modifiers'

\* UPLOADING was the status and no longer is
LeavesUploading ==
    /\ StatusOn(modifiers) = {StatusUPLOADING}
    /\ StatusOn(modifiers') /= {StatusUPLOADING}

\* the host called hidePreloader or render
HideOrRender == HidePreloader \/ \E file \in Files : Render(file)

\* a load handler ran
Completion == \E i \in 1..MaxFills : LoadHandlerRan(i)

\* C12 as stated: the status becomes FILLED only in the load handler of a
\* media element, and once UPLOADING it stays UPLOADING until a load handler
\* runs or the host calls hidePreloader or render.
C12_Original ==
    [][/\ BecomesFilled => Completion
       /\ LeavesUploading => Completion \/ HideOrRender]_vars

\* C12 amended: apart from applyTune calls with a tune name that is a status
\* name, the status becomes FILLED only in the load handler of a media
\* element, and once UPLOADING it stays UPLOADING until a load handler runs
\* or the host calls hidePreloader or render.
C12_FilledOnlyByCompletion ==
    [][/\ BecomesFilled => Completion \/ StatusNamedTune
       /\ LeavesUploading => Completion \/ HideOrRender \/ StatusNamedTune]_vars

\* C12 witness: the view is UPLOADING with a preloader background, a second
\* element has been appended after the first one loaded and has not loaded
\* itself, and a tune has come and gone.
C12_Witness ==
    /\ StatusOn(modifiers) = {StatusUPLOADING}
    /\ preloaderBg /= Null
    /\ Len(children) = 2
    /\ children[1].fired
    /\ ~children[2].fired
    /\ "stretched" \in modifiers

\* C13 as stated: a wheel event has its default action prevented only when
\* the modifier key is held and a media element exists.
C13_Original ==
    [][\A shiftKey \in BOOLEAN, deltaY \in DeltaYs :
        Wheel(shiftKey, deltaY) /\ outcome'.defaultPrevented =>
            shiftKey /\ imageEl /= Null]_vars

\* no pinch is active: no two-touch touchstart has been handled since the
\* construction or since the last touchend that left fewer than two touches
NoPinch == pinchTouches = Null

\* C14 as stated: whenever no pinch is active the baseline distance and the
\* start percentage are both null, and in no reachable state is one of them
\* set while the other is not.
C14_Original ==
    /\ NoPinch => pinchDistance = Null /\ initImageMaxWidth = Null
    /\ (pinchDistance = Null) = (initImageMaxWidth = Null)

\* C14 amended: whenever no pinch is active the start percentage is null
\* and the baseline distance is 0 (as constructed) or null (after a touchend
\* that left fewer than two touches); whenever a pinch is active both are
\* set; so in no reachable state is the start percentage set while the
\* baseline is null, or the baseline non-zero while the start percentage is
\* null.
C14_PinchFieldsTogether ==
    /\ NoPinch => initImageMaxWidth = Null /\ pinchDistance \in {Null, Some(0)}
    /\ ~NoPinch => initImageMaxWidth /= Null /\ pinchDistance /= Null
    /\ initImageMaxWidth /= Null => pinchDistance /= Null
    /\ Truthy(pinchDistance) => initImageMaxWidth /= Null

\* C14 witness: a pinch that started at 12.5% has written 37% and a touchend
\* has ended it: both fields are null again.
C14_Witness ==
    /\ NoPinch
    /\ pinchDistance = Null
    /\ initImageMaxWidth = Null
    /\ imageEl /= Null
    /\ WidthOf(imageEl) = Pct(37)
    /\ outcome = Dispatched(FALSE)

\* the touch lists of two touches
PairLists == {touches \in TouchLists : Len(touches) = 2}

\* touches are the two touches of a touchstart on a media element
Recordable(touches) == imageEl /= Null /\ Len(touches) = 2

\* touches are the two touches of a touchmove on a media element with a
\* non-zero baseline
Scalable(touches) ==
    /\ imageEl /= Null
    /\ Len(touches) = 2
    /\ pinchDistance /= Null
    /\ pinchDistance[1] /= 0

\* a touchstart was handled with touches that are not two touches on a
\* media element
StartElsewise ==
    \E touches \in TouchLists : ~Recordable(touches) /\ OnPinchStart(touches)

\* a touchmove was handled with touches that are not two touches on a media
\* element with a non-zero baseline
MoveElsewise ==
    \E touches \in TouchLists : ~Scalable(touches) /\ OnPinchMove(touches)

\* the step prevented the default action and left the media element as it was
RecordLike == outcome'.defaultPrevented /\ imageEl' = imageEl

\* C15: a touchstart sets the baseline and the start percentage (to the
\* distance of its touches and the current max-width) when a media element
\* exists and it has exactly two touches, and otherwise leaves them and the
\* max-width alone; a touchmove leaves the max-width and the pinch state
\* alone unless a media element exists, it has exactly two touches and the
\* baseline is neither null nor zero.
C15_HandlersGuarded ==
    [][/\ Ensures(StartElsewise, UNCHANGED <<imageEl, pinchDistance, initImageMaxWidth>>)
       /\ RecordLike =>
            \A touches \in PairLists :
                OnPinchStart(touches) =>
                    /\ imageEl /= Null
                    /\ pinchDistance' = Some(GetDistance(touches[1], touches[2]))
                    /\ initImageMaxWidth' = Some(MaxWidthOr100(imageEl[1]))
       /\ Ensures(MoveElsewise, UNCHANGED <<imageEl, pinchDistance, initImageMaxWidth>>)]_vars

\* C15 witness: on the only element, filled at 5%, a pinch was recorded with
\* both touches at one point (a zero baseline); the event after it was left
\* alone and the max-width is still 5%.
C15_Witness ==
    /\ imageEl /= Null
    /\ Len(children) = 1
    /\ pinchDistance = Some(0)
    /\ initImageMaxWidth = Some(Pct(5))
    /\ pinchTouches /= Null
    /\ WidthOf(imageEl) = Pct(5)
    /\ outcome = Dispatched(FALSE)

\* a wheel or touch event was handled
ZoomEvent ==
    \/ \E shiftKey \in BOOLEAN, deltaY \in DeltaYs : Wheel(shiftKey, deltaY)
    \/ \E touches \in OneOrTwoTouches : OnPinchStart(touches)
    \/ \E touches \in OneOrTwoTouches : OnPinchMove(touches)
    \/ \E touches \in OneOrTwoTouches : OnPinchEnd(touches)

\* C16: a wheel or touch event changes neither the status and the tune
\* modifiers, nor the caption, nor the preloader background, nor the media
\* elements in the container, and does not call the file-select callback.
C16_ZoomFrame ==
    [][Ensures(ZoomEvent,
               UNCHANGED <<modifiers, caption, preloaderBg, selectCalls, children>>)]_vars

\* C16 witness: a pinch has brought the loaded element of a FILLED view
\* with a tune, a caption and one file-button click down to 10%.
C16_Witness ==
    /\ StatusOn(modifiers) = {StatusFILLED}
    /\ "withBorder" \in modifiers
    /\ caption = "<b>hi</b>"
    /\ selectCalls = 1
    /\ imageEl /= Null
    /\ WidthOf(imageEl) = Pct(10)
    /\ initImageMaxWidth = Some(Pct(100))
    /\ outcome = Dispatched(TRUE)

\* C17: showPreloader(src) leaves the preloader background at url(src) and
\* UPLOADING as the only status; hidePreloader() leaves the background
\* cleared and EMPTY as the only status; from every state.
C17_PreloaderStatus ==
    [][/\ \A src \in Srcs :
            ShowPreloader(src) =>
                /\ preloaderBg' = Some(<<"url(", src, ")">>)
                /\ StatusOn(modifiers') = {StatusUPLOADING}
       /\ HidePreloader =>
            /\ preloaderBg' = Null
            /\ StatusOn(modifiers') = {StatusEMPTY}]_vars

\* C17 witness: the view is EMPTY with no preloader background although its
\* current element, a video, has loaded.
C17_Witness ==
    /\ StatusOn(modifiers) = {StatusEMPTY}
    /\ preloaderBg = Null
    /\ imageEl /= Null
    /\ imageEl[1].tag = "VIDEO"
    /\ children[Len(children)].fired
    /\ outcome = Returned("undefined")

\* the step is a toggleStatus call with status (what the call leaves alone
\* is looked at first: it is the cheaper part)
StatusCall(status) ==
    /\ outcome' = Returned("undefined")
    /\ UNCHANGED <<preloaderBg, children, imageEl, pinchVars>>
    /\ ToggleStatusCall(status)

\* C18: a toggleStatus call, whatever string it is given and whatever was
\* applied before it, leaves modifiers that a second application of the same
\* status does not change, with that status as the only status modifier
\* (none for a string that is no status) and every other modifier as it was;
\* and applying any status just before it would have made no difference.
C18_StatusIdempotent ==
    [][\A last \in StatusArguments :
        StatusCall(last) =>
            /\ ToggleStatus(modifiers', last) = modifiers'
            /\ StatusOn(modifiers') = {last} \cap StatusModifiers
            /\ modifiers' \ StatusModifiers = modifiers \ StatusModifiers
            /\ \A first \in StatusArguments :
                    ToggleStatus(ToggleStatus(modifiers, first), last) = modifiers']_vars

\* C18 witness: toggleStatus has been called with FILLED on a view that has
\* both tunes and no media element, after UPLOADING was applied by
\* showPreloader: FILLED alone is left, next to the tunes.
C18_Witness ==
    /\ modifiers = {StatusFILLED, "withBorder", "stretched"}
    /\ preloaderBg /= Null
    /\ imageEl = Null
    /\ outcome = Returned("undefined")

\* C19 as stated: whenever FILLED is on the wrapper, the element
\* nodes.imageEl refers to (the last one appended) has fired its completion
\* event.
C19_Original ==
    StatusFILLED \in modifiers =>
        /\ imageEl /= Null
        /\ children[Len(children)].fired

\* a touchmove over touches that come and go wrote a max-width
IdPinchWrite(touches) ==
    /\ outcome'.defaultPrevented
    /\ Len(touches) = 2
    /\ imageEl /= Null
    /\ Truthy(pinchDistance)
    /\ OnPinchMove(touches)

\* C20 as stated: a touchmove with two touches writes a max-width only
\* when the baseline distance was measured between those same two touches.
C20_Original ==
    [][\A touches \in IdTouchLists :
        IdPinchWrite(touches) =>
            pinchTouches = Some({touches[1].identifier, touches[2].identifier})]_vars

====
